---- MODULE Spec2Model ----
(***************************************************************************)
(* The client session container of the course-catalog application:         *)
(* UserProvider (context/UserContext.jsx) over the cookie store            *)
(* (utils/cookieUtils.js).  One page lifetime is: mount, the restore       *)
(* effect, then any interleaving of signIn calls, their backend replies,   *)
(* and signOut.  The backend is the environment: it may answer a request   *)
(* with any status and body, or the request may fail.                      *)
(***************************************************************************)
EXTENDS Integers, Sequences, FiniteSets, TLC

VARIABLES
    user,           \* useState(null): the session object, or Null
    isInitialized,  \* useState(false)
    cookies,        \* the browser's cookie store: cookie name -> value
    restore,        \* the restore effect: its position and its locals
    inFlight,       \* signInUser calls awaiting fetch: their local `credentials`
    windowHref,     \* window.location.href
    loads,          \* page loads so far (bounded)
    last,           \* the handler that ran in the last step, and what it returned
    written,        \* the session that the last successful signIn stored, and the
                    \* page load it ran in; Null once the cookies were cleared
    location,       \* the router's location: pathname, search and state.from
    revision,       \* which revision of the routing components is built
    form,           \* UserSignIn: its loading flag and its errors
    requested,      \* the path a route guard turned the user away from on the way
                    \* to the current location, NullString if none
    shown           \* the history entry of this document at which a guarded page
                    \* was last shown, Null if none

\* the variables of the routed pages; the session container never writes them
ui == <<written, location, revision, form, requested, shown>>

vars == <<user, isInitialized, cookies, restore, inFlight, windowHref, loads, last,
          written, location, revision, form, requested, shown>>

----------------------------------------------------------------------------
(* Bounds of the model *)

MaxInFlight == 1
MaxLoads == 1

----------------------------------------------------------------------------
(* JavaScript values.  Strings are TLA+ strings; an object is a function   *)
(* from its own keys to values; null is Null where an object is expected   *)
(* and NullString where a string is expected.                              *)

Null == [null |-> TRUE]
NullString == "<null>"
Undefined == "<undefined>"

\* ToBoolean on a string-or-null-or-undefined value
Truthy(v) == v \notin {"", NullString, Undefined}

\* property read o.k
Get(o, k) == IF k \in DOMAIN o THEN o[k] ELSE Undefined

\* property order of the objects that are serialised
KeyOrder == <<"id", "email", "emailAddress", "firstName", "lastName", "credentials",
              "message", "errors">>

\* JSON.stringify of a flat object: members whose value is undefined are left out
JSONstringify(o) ==
    LET keep(k) == k \in DOMAIN o /\ o[k] # Undefined
        ks == SelectSeq(KeyOrder, keep)
    IN  [json |-> [i \in 1..Len(ks) |-> <<ks[i], o[ks[i]]>>]]

\* the texts JSON.parse accepts
JSONparsable(t) == "json" \in DOMAIN t \/ "jsonNull" \in DOMAIN t

\* JSON.parse of a text it accepts: an object, or null for the text `null`
JSONparse(t) ==
    IF "jsonNull" \in DOMAIN t THEN Null
    ELSE LET ms == t.json
             val(k) == LET i == CHOOSE j \in 1..Len(ms) :
                                    /\ ms[j][1] = k
                                    /\ \A h \in (j+1)..Len(ms) : ms[h][1] # k
                       IN  ms[i][2]
         IN  [k \in {ms[i][1] : i \in 1..Len(ms)} |-> val(k)]

NotJson == [garbage |-> TRUE]
JsonNullText == [jsonNull |-> TRUE]

----------------------------------------------------------------------------
(* encodeBase64: btoa *)

Base64Chars ==
    << "A","B","C","D","E","F","G","H","I","J","K","L","M","N","O","P",
       "Q","R","S","T","U","V","W","X","Y","Z","a","b","c","d","e","f",
       "g","h","i","j","k","l","m","n","o","p","q","r","s","t","u","v",
       "w","x","y","z","0","1","2","3","4","5","6","7","8","9","+","/" >>

B64(n) == Base64Chars[n + 1]

\* btoa throws InvalidCharacterError on a code unit above 0xFF
BtoaThrows(str) == \E i \in 1..Len(str) : str[i] > 255

RECURSIVE Btoa(_)
Btoa(str) ==
    IF Len(str) = 0 THEN ""
    ELSE IF Len(str) = 1 THEN
        B64(str[1] \div 4) \o B64((str[1] % 4) * 16) \o "=="
    ELSE IF Len(str) = 2 THEN
        B64(str[1] \div 4) \o B64((str[1] % 4) * 16 + str[2] \div 16)
            \o B64((str[2] % 16) * 4) \o "="
    ELSE
        B64(str[1] \div 4) \o B64((str[1] % 4) * 16 + str[2] \div 16)
            \o B64((str[2] % 16) * 4 + str[3] \div 64) \o B64(str[3] % 64)
            \o Btoa(SubSeq(str, 4, Len(str)))

encodeBase64(str) == Btoa(str)

\* the earlier revision of UserContext: encodeBase64 written out by hand.  Its
\* alphabet string has "=" as 65th character; the result is kept as the sequence
\* of the characters appended to `output`
HandRolledChars == Base64Chars \o <<"=">>

\* bytes[i] = str.charCodeAt(i) on a Uint8Array: the value modulo 2^8
Uint8(n) == n % 256

\* the loop from index i (0-based, step 3); bytes[j] past the end is undefined,
\* which the shift and the bitwise or take as 0
RECURSIVE encodeBase64Loop(_, _)
encodeBase64Loop(bytes, i) ==
    IF i >= Len(bytes) THEN << >>
    ELSE LET at(j) == IF j + 1 <= Len(bytes) THEN bytes[j + 1] ELSE 0
             byteNum == at(i) * 65536 + at(i + 1) * 256 + at(i + 2)
             chunk == << HandRolledChars[((byteNum \div 262144) % 64) + 1],
                         HandRolledChars[((byteNum \div 4096) % 64) + 1],
                         HandRolledChars[((byteNum \div 64) % 64) + 1],
                         HandRolledChars[(byteNum % 64) + 1] >>
         IN  chunk \o encodeBase64Loop(bytes, i + 3)

encodeBase64HandRolled(str) ==
    encodeBase64Loop([i \in 1..Len(str) |-> Uint8(str[i])], 0)

\* the string that a sequence of characters spells
RECURSIVE Join(_)
Join(cs) == IF cs = << >> THEN "" ELSE cs[1] \o Join(Tail(cs))

\* `${emailAddress}:${password}`, strings as sequences of code units
BasicAuthString(emailAddress, password) == emailAddress \o <<58>> \o password

----------------------------------------------------------------------------
(* utils/cookieUtils.js over js-cookie.  An operation of the cookie store  *)
(* has an outcome: "ok", "dropped" (the browser silently rejects the       *)
(* write) or "throw" (the try block is left for the catch block).          *)

USER_COOKIE_KEY == "user_credentials"
USER_STATE_COOKIE_KEY == "user_state"

CookiesSet(c, key, value, outcome) ==
    IF outcome = "ok" THEN (key :> value) @@ c ELSE c

CookiesRemove(c, key) == [k \in (DOMAIN c) \ {key} |-> c[k]]

\* as storeUserInCookies, writing the credentials cookie only
storeCredentialsCookieOnly(c, userData, credentials, o1, o2) ==
    IF o1 = "throw" THEN c ELSE CookiesSet(c, USER_COOKIE_KEY, credentials, o1)

\* as storeUserInCookies, serialising the whole session object
storeWholeUserInCookies(c, userData, credentials, o1, o2) ==
    IF o1 = "throw" THEN c
    ELSE LET c1 == CookiesSet(c, USER_COOKIE_KEY, credentials, o1)
         IN  IF o2 = "throw" THEN c1
             ELSE CookiesSet(c1, USER_STATE_COOKIE_KEY, JSONstringify(userData), o2)

\* as storeUserInCookies, storing the address under the key of the backend
storeUserWithEmailKey(c, userData, credentials, o1, o2) ==
    IF o1 = "throw" THEN c
    ELSE LET c1 == CookiesSet(c, USER_COOKIE_KEY, credentials, o1)
             userStateForStorage ==
                 [id |-> Get(userData, "id"),
                  email |-> Get(userData, "emailAddress"),
                  firstName |-> Get(userData, "firstName"),
                  lastName |-> Get(userData, "lastName")]
         IN  IF o2 = "throw" THEN c1
             ELSE CookiesSet(c1, USER_STATE_COOKIE_KEY,
                             JSONstringify(userStateForStorage), o2)

storeUserInCookies(c, userData, credentials, o1, o2) ==
    IF o1 = "throw" THEN c
    ELSE LET c1 == CookiesSet(c, USER_COOKIE_KEY, credentials, o1)
             userStateForStorage ==
                 [id |-> Get(userData, "id"),
                  emailAddress |-> Get(userData, "emailAddress"),
                  firstName |-> Get(userData, "firstName"),
                  lastName |-> Get(userData, "lastName")]
         IN  IF o2 = "throw" THEN c1
             ELSE CookiesSet(c1, USER_STATE_COOKIE_KEY,
                             JSONstringify(userStateForStorage), o2)

getUserCredentialsFromCookies(c, g) ==
    IF g = "throw" THEN NullString
    ELSE IF USER_COOKIE_KEY \in DOMAIN c /\ Truthy(c[USER_COOKIE_KEY])
         THEN c[USER_COOKIE_KEY]
         ELSE NullString

\* as getUserStateFromCookies, with an empty profile for a cookie that does not parse
getUserStateOrEmptyProfile(c, g) ==
    IF g = "throw" THEN Null
    ELSE IF USER_STATE_COOKIE_KEY \in DOMAIN c
         THEN IF JSONparsable(c[USER_STATE_COOKIE_KEY])
              THEN JSONparse(c[USER_STATE_COOKIE_KEY])
              ELSE [id |-> Undefined]
         ELSE Null

getUserStateFromCookies(c, g) ==
    IF g = "throw" THEN Null
    ELSE IF USER_STATE_COOKIE_KEY \in DOMAIN c
         THEN IF JSONparsable(c[USER_STATE_COOKIE_KEY])
              THEN JSONparse(c[USER_STATE_COOKIE_KEY])
              ELSE Null
         ELSE Null

\* as clearUserCookies, removing the credentials cookie only
clearCredentialsCookieOnly(c, r1, r2) ==
    IF r1 = "throw" THEN c ELSE CookiesRemove(c, USER_COOKIE_KEY)

clearUserCookies(c, r1, r2) ==
    IF r1 = "throw" THEN c
    ELSE LET c1 == CookiesRemove(c, USER_COOKIE_KEY)
         IN  IF r2 = "throw" THEN c1
             ELSE CookiesRemove(c1, USER_STATE_COOKIE_KEY)

----------------------------------------------------------------------------
(* The backend, GET /api/users: what fetch resolves with, or its rejection *)

Response(status, body) == [type |-> "response", status |-> status, body |-> body]
NetworkError == [type |-> "error"]
NoResponse == [type |-> "none"]

\* response.ok
ResponseOk(r) == r.status >= 200 /\ r.status <= 299

ProfileBody1 ==
    [json |-> << <<"id", "1">>, <<"email", "a@b.com">>,
                 <<"firstName", "A">>, <<"lastName", "L">> >>]
ProfileBody2 ==
    [json |-> << <<"id", "2">>, <<"emailAddress", "b@c.com">>, <<"firstName", "B">> >>]
MessageBody == [json |-> << <<"message", "Access Denied">> >>]
EmptyMessageBody == [json |-> << <<"message", "">> >>]
ErrorsBody == [json |-> << <<"errors", "[...]">> >>]

\* the replies the backend may give, and the failure of the request
Responses ==
    {Response(200, b) : b \in {ProfileBody1, ProfileBody2, JsonNullText, NotJson}}
    \cup {Response(204, NotJson)}
    \cup {Response(401, b) : b \in {MessageBody, EmptyMessageBody, ErrorsBody,
                                     JsonNullText, NotJson}}
    \cup {Response(403, b) : b \in {MessageBody, NotJson}}
    \cup {Response(500, b) : b \in {MessageBody, NotJson}}
    \cup {NetworkError}

----------------------------------------------------------------------------
(* UserProvider: restoreUserFromCookies *)

RestoreIdle(pc) == [pc |-> pc, storedCredentials |-> NullString, storedUserState |-> Null]

\* as restoreUserFromCookiesStart, asking the backend whenever the credentials
\* cookie is present
restoreStartWithCredentialsOnly(c, g1, g2) ==
    LET storedCredentials == getUserCredentialsFromCookies(c, g1)
        storedUserState == getUserStateFromCookies(c, g2)
    IN  IF Truthy(storedCredentials)
        THEN [restore |-> [pc |-> "fetching",
                           storedCredentials |-> storedCredentials,
                           storedUserState |-> storedUserState],
              isInitialized |-> FALSE,
              fetch |-> storedCredentials]
        ELSE [restore |-> RestoreIdle("done"),
              isInitialized |-> TRUE,
              fetch |-> NullString]

\* up to the await of fetch, or to the end when no request is made
restoreUserFromCookiesStart(c, g1, g2) ==
    LET storedCredentials == getUserCredentialsFromCookies(c, g1)
        storedUserState == getUserStateFromCookies(c, g2)
    IN  IF Truthy(storedCredentials) /\ storedUserState # Null
        THEN [restore |-> [pc |-> "fetching",
                           storedCredentials |-> storedCredentials,
                           storedUserState |-> storedUserState],
              isInitialized |-> FALSE,
              fetch |-> storedCredentials]
        ELSE [restore |-> RestoreIdle("done"),
              isInitialized |-> TRUE,
              fetch |-> NullString]

\* as restoreUserFromCookiesResume, with setIsInitialized(true) at the end of
\* the try block instead of in a finally block
restoreResumeWithoutFinally(response, rs, u, c, r1, r2) ==
    IF response.type = "error"
    THEN [user |-> u, cookies |-> clearUserCookies(c, r1, r2), isInitialized |-> FALSE]
    ELSE IF ResponseOk(response)
         THEN [user |-> ("credentials" :> rs.storedCredentials) @@ rs.storedUserState,
               cookies |-> c, isInitialized |-> TRUE]
         ELSE [user |-> u, cookies |-> clearUserCookies(c, r1, r2), isInitialized |-> TRUE]

\* as restoreUserFromCookiesResume, restoring the stored profile without the credentials
restoreResumeWithoutCredentials(response, rs, u, c, r1, r2) ==
    IF response.type = "error"
    THEN [user |-> u, cookies |-> clearUserCookies(c, r1, r2), isInitialized |-> TRUE]
    ELSE IF ResponseOk(response)
         THEN [user |-> rs.storedUserState, cookies |-> c, isInitialized |-> TRUE]
         ELSE [user |-> u, cookies |-> clearUserCookies(c, r1, r2), isInitialized |-> TRUE]

\* as restoreUserFromCookiesResume, taking the profile from the response body
restoreResumeFromResponse(response, rs, u, c, r1, r2) ==
    IF response.type = "error"
    THEN [user |-> u, cookies |-> clearUserCookies(c, r1, r2), isInitialized |-> TRUE]
    ELSE IF ResponseOk(response)
         THEN [user |-> IF JSONparsable(response.body) /\ JSONparse(response.body) # Null
                        THEN ("credentials" :> rs.storedCredentials)
                                 @@ JSONparse(response.body)
                        ELSE ("credentials" :> rs.storedCredentials) @@ rs.storedUserState,
               cookies |-> c, isInitialized |-> TRUE]
         ELSE [user |-> u, cookies |-> clearUserCookies(c, r1, r2), isInitialized |-> TRUE]

\* from the settlement of fetch to the end of the finally block
restoreUserFromCookiesResume(response, rs, u, c, r1, r2) ==
    IF response.type = "error"
    THEN [user |-> u, cookies |-> clearUserCookies(c, r1, r2), isInitialized |-> TRUE]
    ELSE IF ResponseOk(response)
         THEN [user |-> ("credentials" :> rs.storedCredentials) @@ rs.storedUserState,
               cookies |-> c, isInitialized |-> TRUE]
         ELSE [user |-> u, cookies |-> clearUserCookies(c, r1, r2), isInitialized |-> TRUE]

----------------------------------------------------------------------------
(* UserProvider: signInUser *)

NetworkErrorResult == [success |-> FALSE, message |-> "Network error. Please try again."]

\* what the try block leaves behind when it changes no state
SignInKept(thrown, result, jsonCalled, u, c, href) ==
    [thrown |-> thrown, user |-> u, cookies |-> c, windowHref |-> href,
     result |-> result, jsonCalled |-> jsonCalled]

\* response.json() throws: the body is not JSON, or a property of null is read
JsonThrows(body) == ~JSONparsable(body) \/ JSONparse(body) = Null

DefaultMessage == "Invalid email address or password"

\* the branch of response.ok
signInUserAccepted(response, credentials, u, c, href, o1, o2) ==
    IF JsonThrows(response.body)
    THEN SignInKept(TRUE, Null, TRUE, u, c, href)
    ELSE LET userData == JSONparse(response.body)
             authenticatedUser ==
                 [id |-> Get(userData, "id"),
                  emailAddress |-> Get(userData, "email"),
                  firstName |-> Get(userData, "firstName"),
                  lastName |-> Get(userData, "lastName"),
                  credentials |-> credentials]
         IN  [thrown |-> FALSE,
              user |-> authenticatedUser,
              cookies |-> storeUserInCookies(c, authenticatedUser, credentials, o1, o2),
              windowHref |-> href,
              result |-> [success |-> TRUE],
              jsonCalled |-> TRUE]

\* as signInUserRefused, without the branches of 403 and 500
signInUserRefusedWithoutRedirects(response, u, c, href) ==
    IF JsonThrows(response.body)
    THEN SignInKept(TRUE, Null, TRUE, u, c, href)
    ELSE LET errorData == JSONparse(response.body)
             message == IF Truthy(Get(errorData, "message"))
                        THEN Get(errorData, "message")
                        ELSE DefaultMessage
         IN  SignInKept(FALSE, [success |-> FALSE, message |-> message], TRUE, u, c, href)

\* as signInUserRefused, never taking the message of the body
signInUserRefusedDefaultMessage(response, u, c, href) ==
    IF response.status = 403 THEN
        SignInKept(FALSE, [success |-> FALSE, message |-> "Access forbidden"], FALSE,
                   u, c, "/forbidden")
    ELSE IF response.status = 500 THEN
        SignInKept(FALSE, [success |-> FALSE, message |-> "Server error occurred"], FALSE,
                   u, c, "/error")
    ELSE IF JsonThrows(response.body)
    THEN SignInKept(TRUE, Null, TRUE, u, c, href)
    ELSE SignInKept(FALSE, [success |-> FALSE, message |-> DefaultMessage], TRUE,
                    u, c, href)

\* as signInUserRefused, signing the user out when the backend refuses
signInUserRefusedSigningOut(response, u, c, href) ==
    IF response.status = 403 THEN
        SignInKept(FALSE, [success |-> FALSE, message |-> "Access forbidden"], FALSE,
                   u, c, "/forbidden")
    ELSE IF response.status = 500 THEN
        SignInKept(FALSE, [success |-> FALSE, message |-> "Server error occurred"], FALSE,
                   u, c, "/error")
    ELSE IF JsonThrows(response.body)
    THEN SignInKept(TRUE, Null, TRUE, u, c, href)
    ELSE LET errorData == JSONparse(response.body)
             message == IF Truthy(Get(errorData, "message"))
                        THEN Get(errorData, "message")
                        ELSE DefaultMessage
         IN  SignInKept(FALSE, [success |-> FALSE, message |-> message], TRUE,
                        Null, clearUserCookies(c, "ok", "ok"), href)

\* the else branch of response.ok
signInUserRefused(response, u, c, href) ==
    IF response.status = 403 THEN
        SignInKept(FALSE, [success |-> FALSE, message |-> "Access forbidden"], FALSE,
                   u, c, "/forbidden")
    ELSE IF response.status = 500 THEN
        SignInKept(FALSE, [success |-> FALSE, message |-> "Server error occurred"], FALSE,
                   u, c, "/error")
    ELSE IF JsonThrows(response.body)
    THEN SignInKept(TRUE, Null, TRUE, u, c, href)
    ELSE LET errorData == JSONparse(response.body)
             message == IF Truthy(Get(errorData, "message"))
                        THEN Get(errorData, "message")
                        ELSE DefaultMessage
         IN  SignInKept(FALSE, [success |-> FALSE, message |-> message], TRUE, u, c, href)

\* the try block after fetch settled; thrown = control leaves it by an exception
signInUserTry(response, credentials, u, c, href, o1, o2) ==
    IF response.type = "error" THEN SignInKept(TRUE, Null, FALSE, u, c, href)
    ELSE IF ResponseOk(response)
         THEN signInUserAccepted(response, credentials, u, c, href, o1, o2)
         ELSE signInUserRefused(response, u, c, href)

\* as signInUserResume, without the catch block
signInUserResumeWithoutCatch(response, credentials, u, c, href, o1, o2) ==
    LET t == signInUserTry(response, credentials, u, c, href, o1, o2)
    IN  [settled |-> IF t.thrown THEN "rejected" ELSE "fulfilled",
         result |-> t.result,
         user |-> t.user, cookies |-> t.cookies, windowHref |-> t.windowHref,
         jsonCalled |-> t.jsonCalled]

\* the whole async function from the settlement of fetch: try and catch
signInUserResume(response, credentials, u, c, href, o1, o2) ==
    LET t == signInUserTry(response, credentials, u, c, href, o1, o2)
    IN  [settled |-> "fulfilled",
         result |-> IF t.thrown THEN NetworkErrorResult ELSE t.result,
         user |-> t.user, cookies |-> t.cookies, windowHref |-> t.windowHref,
         jsonCalled |-> t.jsonCalled]

\* as signInUserStart, encoding the email address alone
signInUserStartEmailOnly(emailAddress, password) ==
    IF BtoaThrows(BasicAuthString(emailAddress, password))
    THEN [settled |-> "fulfilled", result |-> NetworkErrorResult, fetch |-> NullString]
    ELSE [settled |-> "pending", result |-> Null, fetch |-> encodeBase64(emailAddress)]

\* the async function up to the await of fetch: encodeBase64 may throw
signInUserStart(emailAddress, password) ==
    IF BtoaThrows(BasicAuthString(emailAddress, password))
    THEN [settled |-> "fulfilled", result |-> NetworkErrorResult, fetch |-> NullString]
    ELSE [settled |-> "pending", result |-> Null,
          fetch |-> encodeBase64(BasicAuthString(emailAddress, password))]

\* the request of signInUser: fetch in its default method, with the Basic-Auth header
signInRequest(credentials) ==
    [method |-> "GET", url |-> "/api/users",
     headers |-> [Authorization |-> "Basic " \o credentials]]

\* as signOutUser, clearing the session only
signOutUserSessionOnly(c, r1, r2) == [user |-> Null, cookies |-> c]

\* signOutUser
signOutUser(c, r1, r2) == [user |-> Null, cookies |-> clearUserCookies(c, r1, r2)]

----------------------------------------------------------------------------
(* The router and the components that read the session.  The repository    *)
(* holds two revisions of the routing components: the files under          *)
(* client/src/components ("jsx") and the later ones of src/unnamed         *)
(* ("parts").  An element is what a component returns; `state` is the      *)
(* `from` of a navigation state, NullString where there is none.           *)

Location(pathname, search, state) ==
    [pathname |-> pathname, search |-> search, state |-> state]

Element(type, to, state) == [type |-> type, to |-> to, state |-> state]

Pathnames == {"/", "/signin", "/signout", "/courses/create"}
Searches == {"", "?tab=1"}

\* navigate(to): the location a path string resolves to
NavigateTo(to, state) ==
    LET l == CHOOSE l \in {Location(p, q, state) : p \in Pathnames, q \in Searches} :
                 l.pathname \o l.search = to
    IN  l

\* components/PrivateRoute.jsx
PrivateRouteJsx(u) ==
    IF u # Null THEN Element("Outlet", NullString, NullString)
    ELSE Element("Navigate", "/signin", NullString)

\* PrivateRoute of the later revision
PrivateRoute(u, init, loc) ==
    IF ~init THEN Element("Loading", NullString, NullString)
    ELSE IF u # Null THEN Element("Outlet", NullString, NullString)
    ELSE Element("Navigate", "/signin", loc.pathname \o loc.search)

\* components/App.jsx: the element of the route that matches the location
AppJsx(u, loc) ==
    CASE loc.pathname = "/" -> Element("Courses", NullString, NullString)
      [] loc.pathname = "/signin" -> Element("UserSignIn", NullString, NullString)
      [] loc.pathname = "/signout" -> Element("UserSignOut", NullString, NullString)
      [] loc.pathname = "/courses/create" ->
            IF PrivateRouteJsx(u).type = "Outlet"
            THEN Element("CourseCreate", NullString, NullString)
            ELSE PrivateRouteJsx(u)
      [] OTHER -> Element("None", NullString, NullString)

\* App of the later revision
App(u, init, loc) ==
    CASE loc.pathname = "/signin" -> Element("UserSignIn", NullString, NullString)
      [] loc.pathname = "/signout" -> Element("UserSignOut", NullString, NullString)
      [] loc.pathname = "/" ->
            IF PrivateRoute(u, init, loc).type = "Outlet"
            THEN Element("Courses", NullString, NullString)
            ELSE PrivateRoute(u, init, loc)
      [] loc.pathname = "/courses/create" ->
            IF PrivateRoute(u, init, loc).type = "Outlet"
            THEN Element("CourseCreate", NullString, NullString)
            ELSE PrivateRoute(u, init, loc)
      [] OTHER -> Element("NotFound", NullString, NullString)

\* what <Routes> renders at a location
Routes(rev, u, init, loc) == IF rev = "jsx" THEN AppJsx(u, loc) ELSE App(u, init, loc)

\* the locations a route guard wraps
Guarded(rev, loc) ==
    IF rev = "jsx" THEN loc.pathname = "/courses/create"
    ELSE loc.pathname \in {"/", "/courses/create"}

\* components/Header.jsx: the navigation it renders
Header(u) == IF u # Null THEN "header--signedin" ELSE "header--signedout"

\* components/Courses.jsx, its effect: where it navigates, NullString if nowhere
CoursesJsxEffect(u) ==
    IF u = Null \/ ~Truthy(Get(u, "credentials")) THEN "/signin" ELSE NullString

\* One commit: the effects of the elements rendered from s, all applied.
\* s = [user, cookies, location, redirects, unmounted]
CommitEffects(rev, init, s) ==
    LET e == Routes(rev, s.user, init, s.location)
        moved(to, state, by) ==
            [s EXCEPT !.location = NavigateTo(to, state),
                      !.redirects = Append(@, [by |-> by,
                                               at |-> s.location,
                                               to |-> to,
                                               state |-> state,
                                               initialized |-> init,
                                               signedIn |-> s.user # Null]),
                      !.unmounted = @ \/ to # "/signin"]
    IN  CASE e.type = "Navigate" -> moved(e.to, e.state, "PrivateRoute")
          [] e.type = "UserSignOut" ->
                LET r == signOutUser(s.cookies, "ok", "ok")
                IN  [moved("/", NullString, "UserSignOut")
                        EXCEPT !.user = r.user, !.cookies = r.cookies]
          [] e.type = "Courses" /\ rev = "jsx" /\ CoursesJsxEffect(s.user) # NullString ->
                moved(CoursesJsxEffect(s.user), NullString, "Courses")
          [] OTHER -> s

\* commits until no effect moves the location: at most /signout, /, /signin
Commit(rev, init, s) ==
    CHOOSE s3 \in { CommitEffects(rev, init, s2) :
                      s2 \in { CommitEffects(rev, init, s1) :
                                 s1 \in { CommitEffects(rev, init, s0) : s0 \in {s} } } } :
        TRUE

\* what a handler hands to the next render
Rendering(u, c, loc) ==
    [user |-> u, cookies |-> c, location |-> loc, redirects |-> << >>,
     unmounted |-> loc.pathname # "/signin"]

\* UserSignIn: useState([]) and useState(false)
FormMounted == [loading |-> FALSE, errors |-> << >>]

\* UserSignIn.handleSubmit from the settlement of actions.signIn; from is
\* location.state?.from of the render that the handler closed over
handleSubmitResume(settled, result, from, loc, f) ==
    IF settled = "rejected"
    THEN [location |-> loc, navigated |-> NullString,
          form |-> [loading |-> FALSE,
                    errors |-> <<"An unexpected error occurred. Please try again.">>]]
    ELSE IF result = [success |-> TRUE]
    THEN LET intendedDestination == IF Truthy(from) THEN from ELSE "/"
         IN  [location |-> NavigateTo(intendedDestination, NullString),
              navigated |-> intendedDestination,
              form |-> [f EXCEPT !.loading = FALSE]]
    ELSE [location |-> loc, navigated |-> NullString,
          form |-> [loading |-> FALSE, errors |-> <<Get(result, "message")>>]]

----------------------------------------------------------------------------
(* The course pages and the forms that write to the backend.  The body of  *)
(* a reply to these requests is an object: its `course`, its `errors` list *)
(* and its `message` where it has them, Null for the text `null`, NotJson  *)
(* for a body response.json() rejects.                                     *)

Course(userId) ==
    [userId |-> userId, title |-> "T", description |-> "D",
     estimatedTime |-> "", materialsNeeded |-> Undefined]

\* useState of formData
EmptyFormData ==
    [title |-> "", description |-> "", estimatedTime |-> "", materialsNeeded |-> ""]

\* v || ''
OrEmpty(v) == IF Truthy(v) THEN v ELSE ""

\* response.json() throws on this body
BodyThrows(body) == body = NotJson

\* reading a property of data.course throws: data is null, or data.course is
\* undefined or null
CourseMissing(body) ==
    body = Null \/ "course" \notin DOMAIN body \/ body.course = Null

\* what a continuation leaves in the state of its page, and where it navigated;
\* `loading` is the flag its finally block resets, `errors` the page's errors
\* (for CourseDetail its one `error`, empty for null)
PageKept(p, errors, navigated) ==
    [p EXCEPT !.loading = FALSE, !.errors = errors, !.navigated = navigated]

\* as CourseUpdateFetchCourse, populating the form whoever owns the course
CourseUpdateFetchCourseUnchecked(response, u, p) ==
    IF response.type = "error" THEN PageKept(p, <<"Failed to fetch">>, NullString)
    ELSE IF ~ResponseOk(response) THEN
        CASE response.status = 404 -> PageKept(p, p.errors, "/notfound")
          [] response.status = 403 -> PageKept(p, p.errors, "/forbidden")
          [] response.status = 500 -> PageKept(p, p.errors, "/error")
          [] OTHER -> PageKept(p, <<"HTTP error! status">>, NullString)
    ELSE IF BodyThrows(response.body) \/ CourseMissing(response.body)
    THEN PageKept(p, <<"TypeError">>, NullString)
    ELSE [PageKept(p, << >>, NullString)
             EXCEPT !.course = response.body.course,
                    !.formData =
                        [title |-> OrEmpty(response.body.course.title),
                         description |-> OrEmpty(response.body.course.description),
                         estimatedTime |-> OrEmpty(response.body.course.estimatedTime),
                         materialsNeeded |->
                             OrEmpty(response.body.course.materialsNeeded)]]

\* CourseUpdate.fetchCourse from the settlement of fetch; u is the `user` of the
\* render whose effect called it
CourseUpdateFetchCourse(response, u, p) ==
    IF response.type = "error" THEN PageKept(p, <<"Failed to fetch">>, NullString)
    ELSE IF ~ResponseOk(response) THEN
        CASE response.status = 404 -> PageKept(p, p.errors, "/notfound")
          [] response.status = 403 -> PageKept(p, p.errors, "/forbidden")
          [] response.status = 500 -> PageKept(p, p.errors, "/error")
          [] OTHER -> PageKept(p, <<"HTTP error! status">>, NullString)
    ELSE IF BodyThrows(response.body) \/ CourseMissing(response.body)
    THEN PageKept(p, <<"TypeError">>, NullString)
    ELSE IF response.body.course.userId # Get(u, "id")
    THEN [PageKept(p, p.errors, "/forbidden") EXCEPT !.course = response.body.course]
    ELSE [PageKept(p, << >>, NullString)
             EXCEPT !.course = response.body.course,
                    !.formData =
                        [title |-> OrEmpty(response.body.course.title),
                         description |-> OrEmpty(response.body.course.description),
                         estimatedTime |-> OrEmpty(response.body.course.estimatedTime),
                         materialsNeeded |->
                             OrEmpty(response.body.course.materialsNeeded)]]

\* CourseDetail.fetchCourse from the settlement of fetch, and the render that
\* follows: without a course it navigates to /notfound
CourseDetailFetchCourse(response, u, p) ==
    IF response.type = "error" THEN PageKept(p, <<"Failed to fetch">>, NullString)
    ELSE IF ~ResponseOk(response) THEN
        CASE response.status = 404 -> PageKept(p, p.errors, "/notfound")
          [] response.status = 403 -> PageKept(p, p.errors, "/forbidden")
          [] response.status = 500 -> PageKept(p, p.errors, "/error")
          [] OTHER -> PageKept(p, <<"HTTP error! status">>, NullString)
    ELSE IF BodyThrows(response.body) \/ response.body = Null
    THEN PageKept(p, <<"TypeError">>, NullString)
    ELSE IF CourseMissing(response.body)
    THEN PageKept(p, << >>, "/notfound")
    ELSE [PageKept(p, << >>, NullString) EXCEPT !.course = response.body.course]

\* CourseDetail, its action bar: the controls offered besides Return to List
CourseDetailControls(u, p) ==
    IF p.loading \/ p.errors # << >> \/ p.course = Null THEN {}
    ELSE IF u # Null /\ Get(u, "id") = p.course.userId
         THEN {"Update Course", "Delete Course"}
         ELSE {}

\* the else branch of the three handleSubmit, after the branches of 403 and 500:
\* the errors of the body, else its message where the form reads it, else the
\* message of the form
SubmitRefused(response, p, readsMessage, default) ==
    IF BodyThrows(response.body) \/ response.body = Null
    THEN PageKept(p, <<default>>, NullString)
    ELSE IF "errors" \in DOMAIN response.body
    THEN PageKept(p, response.body.errors, NullString)
    ELSE IF readsMessage /\ Truthy(Get(response.body, "message"))
    THEN PageKept(p, <<response.body.message>>, NullString)
    ELSE PageKept(p, <<default>>, NullString)

\* the branches of 403 and 500, then SubmitRefused
SubmitRefusedOrRedirected(response, p, readsMessage, default) ==
    CASE response.status = 403 -> PageKept(p, p.errors, "/forbidden")
      [] response.status = 500 -> PageKept(p, p.errors, "/error")
      [] OTHER -> SubmitRefused(response, p, readsMessage, default)

\* components/CourseCreate.jsx, handleSubmit from the settlement of fetch
CourseCreateHandleSubmitJsx(response, p) ==
    IF response.type = "error"
    THEN PageKept(p, <<"Failed to create course. Please try again.">>, NullString)
    ELSE IF ResponseOk(response) THEN PageKept(p, p.errors, "/")
    ELSE SubmitRefused(response, p, FALSE, "Failed to create course. Please try again.")

\* CourseCreate of the later revision
CourseCreateHandleSubmit(response, p) ==
    IF response.type = "error"
    THEN PageKept(p, <<"Failed to create course. Please try again.">>, NullString)
    ELSE IF ResponseOk(response) THEN PageKept(p, p.errors, "/")
    ELSE SubmitRefusedOrRedirected(response, p, FALSE,
                                   "Failed to create course. Please try again.")

\* components/CourseUpdate.jsx, handleSubmit from the settlement of fetch
CourseUpdateHandleSubmit(response, p) ==
    LET q == [p EXCEPT !.submitting = FALSE]
    IN  IF response.type = "error"
        THEN PageKept(q, <<"Failed to update course. Please try again.">>, NullString)
        ELSE IF ResponseOk(response) THEN PageKept(q, q.errors, "/courses/:id")
        ELSE SubmitRefusedOrRedirected(response, q, TRUE,
                                       "Failed to update course. Please try again.")

\* components/UserSignUp.jsx, handleSubmit from the settlement of fetch up to the
\* call of actions.signIn: calls = TRUE when it goes on to call it
UserSignUpHandleSubmitJsx(response, p) ==
    IF response.type = "error"
    THEN [calls |-> FALSE,
          page |-> PageKept(p, <<"Failed to create user. Please try again.">>, NullString)]
    ELSE IF ResponseOk(response) THEN [calls |-> TRUE, page |-> p]
    ELSE [calls |-> FALSE,
          page |-> SubmitRefused(response, p, FALSE,
                                 "Failed to create user. Please try again.")]

\* UserSignUp of the later revision
UserSignUpHandleSubmit(response, p) ==
    IF response.type = "error"
    THEN [calls |-> FALSE,
          page |-> PageKept(p, <<"Failed to create user. Please try again.">>, NullString)]
    ELSE IF ResponseOk(response) THEN [calls |-> TRUE, page |-> p]
    ELSE [calls |-> FALSE,
          page |-> SubmitRefusedOrRedirected(response, p, FALSE,
                                             "Failed to create user. Please try again.")]

\* components/UserSignUp.jsx from the settlement of actions.signIn
UserSignUpAfterSignInJsx(signInResult, p) == PageKept(p, p.errors, "/")

\* UserSignUp of the later revision from the settlement of actions.signIn
UserSignUpAfterSignIn(signInResult, p) ==
    IF signInResult = [success |-> TRUE]
    THEN PageKept(p, p.errors, "/")
    ELSE PageKept(p, <<"User created successfully, but sign in failed: "
                          \o signInResult.message>>, NullString)

----------------------------------------------------------------------------
(* Inputs *)

EmailAddresses == { <<97>>, <<98>>, <<960>> }      \* "a", "b", and one outside Latin-1
Passwords == { <<112>> }                           \* "p"

StoredProfile == [id |-> "1", emailAddress |-> "a@b.com", firstName |-> "A", lastName |-> "L"]

InitialCredentialCookies == { encodeBase64(BasicAuthString(<<97>>, <<112>>)) }
InitialStateCookies == { JSONstringify(StoredProfile), NotJson }

InitialCookieStores ==
    {<< >>}
    \cup { (USER_COOKIE_KEY :> v) : v \in InitialCredentialCookies }
    \cup { (USER_STATE_COOKIE_KEY :> w) : w \in InitialStateCookies }
    \cup { (USER_COOKIE_KEY :> v) @@ (USER_STATE_COOKIE_KEY :> w) :
             v \in InitialCredentialCookies, w \in InitialStateCookies }

\* The outcomes of the two cookie operations of one handler.  js-cookie performs
\* every operation; the browser may silently reject a write (a cookie over its size
\* limit); where document.cookie is not accessible every operation throws.
Reliable == { <<"ok", "ok">> }
WriteFaults == { <<"ok", "ok">>, <<"ok", "dropped">>, <<"dropped", "ok">>,
                 <<"dropped", "dropped">>, <<"throw", "throw">> }
AccessFaults == { <<"ok", "ok">>, <<"throw", "throw">> }

----------------------------------------------------------------------------
(* The state machine *)

Init ==
    /\ user = Null
    /\ isInitialized = FALSE
    /\ cookies \in InitialCookieStores
    /\ restore = RestoreIdle("start")
    /\ inFlight = << >>
    /\ windowHref = "/"
    /\ loads = 0
    /\ last = [op |-> "load", after |-> "none"]
    /\ written = Null
    /\ location = Location("/signin", "", NullString)
    /\ revision = "jsx"
    /\ form = FormMounted
    /\ requested = NullString
    /\ shown = Null

\* the effect of UserProvider runs after the first commit
RestoreStart(G) ==
    /\ restore.pc = "start"
    /\ \E g \in G :
         LET r == restoreUserFromCookiesStart(cookies, g[1], g[2])
         IN  /\ restore' = r.restore
             /\ isInitialized' = r.isInitialized
             /\ last' = [op |-> "restoreStart", fetch |-> r.fetch,
                          after |-> IF last.op = "load" THEN last.after ELSE "none"]
    /\ UNCHANGED <<user, cookies, inFlight, windowHref, loads>> /\ UNCHANGED ui

\* fetch of the restore effect settles
RestoreSettle(R) ==
    /\ restore.pc = "fetching"
    /\ \E response \in Responses, rm \in R :
         LET r == restoreUserFromCookiesResume(response, restore, user, cookies,
                                               rm[1], rm[2])
         IN  /\ user' = r.user
             /\ cookies' = r.cookies
             /\ isInitialized' = r.isInitialized
             /\ last' = [op |-> "restore", response |-> response]
    /\ restore' = RestoreIdle("done")
    /\ UNCHANGED <<inFlight, windowHref, loads>> /\ UNCHANGED ui

\* actions.signIn(emailAddress, password) is called
SignInCall ==
    /\ restore.pc # "start"
    /\ Len(inFlight) < MaxInFlight
    /\ \E emailAddress \in EmailAddresses, password \in Passwords :
         LET r == signInUserStart(emailAddress, password)
         IN  /\ inFlight' = IF r.settled = "pending"
                            THEN Append(inFlight, [credentials |-> r.fetch])
                            ELSE inFlight
             /\ last' = IF r.settled = "pending"
                        THEN [op |-> "signInStart", fetch |-> r.fetch,
                              emailAddress |-> emailAddress, password |-> password]
                        ELSE [op |-> "signIn", settled |-> r.settled, result |-> r.result,
                              credentials |-> NullString, response |-> NoResponse,
                              jsonCalled |-> FALSE]
    /\ UNCHANGED <<user, isInitialized, cookies, restore, windowHref, loads>> /\ UNCHANGED ui

\* fetch of one signInUser call settles
SignInSettle(S) ==
    \E i \in 1..Len(inFlight), response \in Responses, o \in S :
        LET r == signInUserResume(response, inFlight[i].credentials,
                                  user, cookies, windowHref, o[1], o[2])
        IN  /\ user' = r.user
            /\ cookies' = r.cookies
            /\ windowHref' = r.windowHref
            /\ last' = [op |-> "signIn", settled |-> r.settled, result |-> r.result,
                        credentials |-> inFlight[i].credentials, response |-> response,
                        jsonCalled |-> r.jsonCalled]
            /\ inFlight' = [j \in 1..(Len(inFlight) - 1) |->
                              IF j < i THEN inFlight[j] ELSE inFlight[j + 1]]
            /\ UNCHANGED <<isInitialized, restore, loads>> /\ UNCHANGED ui

\* actions.signOut()
SignOut(R) ==
    /\ \E rm \in R :
         LET r == signOutUser(cookies, rm[1], rm[2])
         IN  /\ user' = r.user
             /\ cookies' = r.cookies
    /\ last' = [op |-> "signOut"]
    /\ UNCHANGED <<isInitialized, restore, inFlight, windowHref, loads>> /\ UNCHANGED ui

\* the page is loaded again: a new UserProvider over the same cookie store
PageLoad ==
    /\ loads < MaxLoads
    /\ loads' = loads + 1
    /\ user' = Null
    /\ isInitialized' = FALSE
    /\ restore' = RestoreIdle("start")
    /\ inFlight' = << >>
    /\ last' = [op |-> "load", after |-> last.op]
    /\ UNCHANGED <<cookies, windowHref>> /\ UNCHANGED ui

\* the cookie store performs every operation
Next ==
    \/ RestoreStart(Reliable)
    \/ RestoreSettle(Reliable)
    \/ SignInCall
    \/ SignInSettle(Reliable)
    \/ SignOut(Reliable)
    \/ PageLoad

Spec == Init /\ [][Next]_vars

\* operations of the cookie store may fail
FaultNext ==
    \/ RestoreStart(AccessFaults)
    \/ RestoreSettle(AccessFaults)
    \/ SignInCall
    \/ SignInSettle(WriteFaults)
    \/ SignOut(AccessFaults)
    \/ PageLoad

FaultSpec == Init /\ [][FaultNext]_vars

\* React runs the effect after mount, and a fetch settles: it resolves or it rejects
FairSpec ==
    Spec /\ WF_vars(RestoreStart(Reliable)) /\ WF_vars(RestoreSettle(Reliable))

----------------------------------------------------------------------------
(* The routed pages over the session container: a page load renders App    *)
(* inside UserProvider, the effects of the rendered components run, then   *)
(* the restore effect; the user follows links and submits the sign-in form *)

Revisions == {"jsx", "parts"}

\* "a", "bc" (with ":p": 3 and 4 code units) and one outside Latin-1
UiEmailAddresses == { <<97>>, <<98, 99>>, <<960>> }

UiResponses ==
    { Response(200, ProfileBody1), Response(200, ProfileBody2),
      Response(401, MessageBody), Response(403, MessageBody), NetworkError }

UiCookieStores ==
    { << >>,
      (USER_COOKIE_KEY :> encodeBase64(BasicAuthString(<<97>>, <<112>>)))
          @@ (USER_STATE_COOKIE_KEY :> JSONstringify(StoredProfile)) }

\* the addresses a page is loaded at
Urls ==
    { Location(p, "", NullString) : p \in Pathnames }
    \cup { Location("/courses/create", "?tab=1", NullString) }

\* main.jsx: the first render and its effects, the restore effect up to its
\* await, and the renders that follow
Mounted(rev, c, loc) ==
    LET s1 == CommitEffects(rev, FALSE, Rendering(Null, c, loc))
        r == restoreUserFromCookiesStart(s1.cookies, "ok", "ok")
    IN  CHOOSE m \in
            { [user |-> s2.user, cookies |-> s2.cookies, location |-> s2.location,
               redirects |-> s2.redirects, restore |-> r.restore,
               isInitialized |-> r.isInitialized, fetch |-> r.fetch] :
                s2 \in {Commit(rev, r.isInitialized, s1)} } :
            TRUE

\* the cookies that `written` described are gone
Kept(w, c) == IF c = << >> THEN Null ELSE w

\* the path the last redirect of a chain kept the user from, if a route guard made it
Requested(redirects) ==
    IF redirects # << >> /\ redirects[Len(redirects)].by = "PrivateRoute"
    THEN redirects[Len(redirects)].at.pathname \o redirects[Len(redirects)].at.search
    ELSE NullString

\* the history entry of the guarded page now shown, or the one recorded before
Shown(rev, u, init, loc, before) ==
    IF Guarded(rev, loc) /\ Routes(rev, u, init, loc).type \in {"Courses", "CourseCreate"}
    THEN loc
    ELSE before

\* signInUser calls whose form was unmounted keep running
Unmount(calls) == [i \in 1..Len(calls) |-> [calls[i] EXCEPT !.mounted = FALSE]]

UiInit ==
    \E rev \in Revisions, c \in UiCookieStores, loc \in Urls :
        \E m \in {Mounted(rev, c, loc)} :
            /\ revision = rev
            /\ user = m.user
            /\ isInitialized = m.isInitialized
            /\ cookies = m.cookies
            /\ restore = m.restore
            /\ location = m.location
            /\ last = [op |-> "load", after |-> "none", url |-> loc,
                       fetch |-> m.fetch, redirects |-> m.redirects]
            /\ inFlight = << >>
            /\ windowHref = "/"
            /\ loads = 0
            /\ written = Null
            /\ form = FormMounted
            /\ requested = Requested(m.redirects)
            /\ shown = Shown(rev, m.user, m.isInitialized, m.location, Null)

\* the page is loaded again, at an address typed in or at the current location
Load ==
    /\ loads < MaxLoads
    /\ loads' = loads + 1
    /\ \E loc \in Urls \cup {location} :
         \E m \in {Mounted(revision, cookies, loc)} :
             /\ user' = m.user
             /\ isInitialized' = m.isInitialized
             /\ cookies' = m.cookies
             /\ restore' = m.restore
             /\ location' = m.location
             /\ written' = Kept(written, m.cookies)
             /\ requested' = Requested(m.redirects)
             /\ shown' = Shown(revision, m.user, m.isInitialized, m.location, Null)
             /\ last' = [op |-> "load", after |-> last.op, url |-> loc,
                         fetch |-> m.fetch, redirects |-> m.redirects]
    /\ inFlight' = << >>
    /\ form' = FormMounted
    /\ UNCHANGED <<windowHref, revision>>

\* fetch of the restore effect settles, and the pages render again
RestoreReply ==
    /\ restore.pc = "fetching"
    /\ \E response \in UiResponses :
         \E r \in {restoreUserFromCookiesResume(response, restore, user, cookies,
                                                "ok", "ok")} :
         \E s \in {Commit(revision, r.isInitialized,
                          Rendering(r.user, r.cookies, location))} :
             /\ user' = s.user
             /\ cookies' = s.cookies
             /\ isInitialized' = r.isInitialized
             /\ location' = s.location
             /\ written' = Kept(written, s.cookies)
             /\ form' = IF s.unmounted THEN FormMounted ELSE form
             /\ inFlight' = IF s.unmounted THEN Unmount(inFlight) ELSE inFlight
             /\ requested' = IF s.redirects = << >> THEN requested
                              ELSE Requested(s.redirects)
             /\ shown' = Shown(revision, s.user, r.isInitialized, s.location, shown)
             /\ last' = [op |-> "restore", response |-> response,
                         redirects |-> s.redirects]
    /\ restore' = RestoreIdle("done")
    /\ UNCHANGED <<windowHref, loads, revision>>

\* the links of the page shown: those of Header, and Courses' link to the new course
Links ==
    {"/", "/signin", "/signout"}
    \cup (IF Routes(revision, user, isInitialized, location).type = "Courses"
          THEN {"/courses/create"} ELSE {})

\* the user follows a link
LinkClick ==
    /\ \E to \in Links :
         \E s \in {Commit(revision, isInitialized,
                          Rendering(user, cookies, NavigateTo(to, NullString)))} :
             /\ user' = s.user
             /\ cookies' = s.cookies
             /\ location' = s.location
             /\ written' = Kept(written, s.cookies)
             /\ form' = IF s.unmounted THEN FormMounted ELSE form
             /\ inFlight' = IF s.unmounted THEN Unmount(inFlight) ELSE inFlight
             /\ requested' = Requested(s.redirects)
             /\ shown' = Shown(revision, s.user, isInitialized, s.location, shown)
             /\ last' = [op |-> "link", to |-> to, redirects |-> s.redirects]
    /\ UNCHANGED <<isInitialized, restore, windowHref, loads, revision>>

\* the user goes back in the history of this document, to the entry of a guarded
\* page shown earlier
PopState ==
    /\ shown # Null
    /\ shown # location
    /\ \E s \in {Commit(revision, isInitialized, Rendering(user, cookies, shown))} :
           /\ user' = s.user
           /\ cookies' = s.cookies
           /\ location' = s.location
           /\ written' = Kept(written, s.cookies)
           /\ form' = IF s.unmounted THEN FormMounted ELSE form
           /\ inFlight' = IF s.unmounted THEN Unmount(inFlight) ELSE inFlight
           /\ requested' = Requested(s.redirects)
           /\ shown' = Shown(revision, s.user, isInitialized, s.location, Null)
           /\ last' = [op |-> "popstate", to |-> shown, redirects |-> s.redirects]
    /\ UNCHANGED <<isInitialized, restore, windowHref, loads, revision>>

\* the sign-in form is submitted: handleSubmit up to the await inside signIn
SubmitCall ==
    /\ Routes(revision, user, isInitialized, location).type = "UserSignIn"
    /\ ~form.loading
    /\ Len(inFlight) < MaxInFlight
    /\ \E emailAddress \in UiEmailAddresses, password \in Passwords :
         \E r \in {signInUserStart(emailAddress, password)} :
         \E h \in {handleSubmitResume(r.settled, r.result, location.state, location,
                                      form)} :
             IF r.settled = "pending"
             THEN /\ inFlight' = Append(inFlight,
                                        [credentials |-> r.fetch,
                                         emailAddress |-> emailAddress,
                                         password |-> password,
                                         from |-> location.state,
                                         requested |-> requested,
                                         mounted |-> TRUE])
                  /\ form' = [loading |-> TRUE, errors |-> << >>]
                  /\ last' = [op |-> "signInStart", fetch |-> r.fetch,
                              request |-> signInRequest(r.fetch),
                              emailAddress |-> emailAddress, password |-> password]
             ELSE /\ inFlight' = inFlight
                  /\ form' = h.form
                  /\ last' = [op |-> "signIn", settled |-> r.settled,
                              result |-> r.result, credentials |-> NullString,
                              response |-> NoResponse, jsonCalled |-> FALSE,
                              emailAddress |-> emailAddress, password |-> password,
                              from |-> location.state, requested |-> requested,
                              href |-> windowHref, navigated |-> h.navigated,
                              mounted |-> TRUE, redirects |-> << >>]
    /\ UNCHANGED <<user, isInitialized, cookies, restore, windowHref, loads,
                   written, location, revision, requested, shown>>

\* fetch of a signInUser call settles: the rest of signInUser, then the rest of
\* handleSubmit, and the pages render again
SubmitSettle ==
    \E i \in 1..Len(inFlight), response \in UiResponses :
        \E call \in {inFlight[i]} :
        \E r \in {signInUserResume(response, call.credentials, user, cookies,
                                   windowHref, "ok", "ok")} :
        \E h \in {handleSubmitResume(r.settled, r.result, call.from, location, form)} :
        \E s \in {Commit(revision, isInitialized,
                         Rendering(r.user, r.cookies, h.location))} :
        LET rest == [j \in 1..(Len(inFlight) - 1) |->
                       IF j < i THEN inFlight[j] ELSE inFlight[j + 1]]
        IN  /\ user' = s.user
            /\ cookies' = s.cookies
            /\ windowHref' = r.windowHref
            /\ location' = s.location
            /\ written' = Kept(IF r.result = [success |-> TRUE]
                               THEN [user |-> r.user, loads |-> loads]
                               ELSE written, s.cookies)
            /\ form' = IF s.unmounted THEN FormMounted
                       ELSE IF call.mounted THEN h.form ELSE form
            /\ inFlight' = IF s.unmounted THEN Unmount(rest) ELSE rest
            /\ requested' = IF h.navigated = NullString /\ s.redirects = << >>
                             THEN requested
                             ELSE Requested(s.redirects)
            /\ shown' = Shown(revision, s.user, isInitialized, s.location, shown)
            /\ last' = [op |-> "signIn", settled |-> r.settled, result |-> r.result,
                        credentials |-> call.credentials, response |-> response,
                        jsonCalled |-> r.jsonCalled,
                        emailAddress |-> call.emailAddress, password |-> call.password,
                        from |-> call.from, requested |-> call.requested,
                        href |-> windowHref, navigated |-> h.navigated,
                        mounted |-> call.mounted, redirects |-> s.redirects]
            /\ UNCHANGED <<isInitialized, restore, loads, revision>>

UiNext ==
    \/ Load
    \/ RestoreReply
    \/ LinkClick
    \/ PopState
    \/ SubmitCall
    \/ SubmitSettle

UiSpec == UiInit /\ [][UiNext]_vars

----------------------------------------------------------------------------
(* One page that talks to the backend, mounted for a session at rest:      *)
(* CourseDetail and CourseUpdate fetch their course at mount; CourseCreate, *)
(* CourseUpdate and UserSignUp submit their form, and UserSignUp goes on   *)
(* to sign in.  `form` is the state of the page, `inFlight` its request.   *)

Pages == {"CourseDetail", "CourseUpdate", "CourseCreate", "UserSignUp"}

PagePath(page) ==
    CASE page = "CourseDetail" -> "/courses/:id"
      [] page = "CourseUpdate" -> "/courses/:id/update"
      [] page = "CourseCreate" -> "/courses/create"
      [] page = "UserSignUp" -> "/signup"

\* the session of user 1, signed in as "a" with "p"
Session1 ==
    [id |-> "1", emailAddress |-> "a@b.com", firstName |-> "A", lastName |-> "L",
     credentials |-> encodeBase64(BasicAuthString(<<97>>, <<112>>))]

\* the replies to GET /api/courses/:id
CourseResponses ==
    { Response(200, [course |-> Course("1")]), Response(200, [course |-> Course("2")]),
      Response(200, [course |-> Null]), Response(200, [message |-> "none"]),
      Response(200, NotJson),
      Response(404, [message |-> "Course not found"]),
      Response(403, [message |-> "Access Denied"]),
      Response(500, NotJson), Response(401, [message |-> "Access Denied"]),
      NetworkError }

\* the replies to POST /api/courses, PUT /api/courses/:id and POST /api/users
FormResponses ==
    { Response(201, Null), Response(204, NotJson),
      Response(400, [errors |-> <<"Please provide a value for \"title\"",
                                  "Please provide a value for \"description\"">>]),
      Response(400, [errors |-> << >>]),
      Response(400, [message |-> "Bad request"]),
      Response(401, [message |-> ""]),
      Response(400, NotJson), Response(400, Null),
      Response(403, [message |-> "Access Denied"]),
      Response(500, NotJson),
      NetworkError }

\* the replies to the sign-in request that follows a sign-up
SignUpSignInResponses ==
    { Response(200, ProfileBody1), Response(401, MessageBody),
      Response(403, MessageBody), NetworkError }

\* useState of the page; CourseDetail and CourseUpdate start with loading = true
PageMounted(page) ==
    [page |-> page, course |-> Null, formData |-> EmptyFormData, errors |-> << >>,
     loading |-> page \in {"CourseDetail", "CourseUpdate"}, submitting |-> FALSE,
     navigated |-> NullString]

\* the location after a continuation that may have navigated
Navigated(p, loc) ==
    IF p.navigated = NullString THEN loc ELSE Location(p.navigated, "", NullString)

\* the page is mounted by a route that is guarded unless it is UserSignUp, or
\* CourseDetail in components/App.jsx; the effect of a course page calls
\* fetchCourse, which throws at user.credentials when there is no session
PagesInit ==
    \E rev \in Revisions, page \in Pages, u \in {Null, Session1} :
        /\ u = Null => (page = "UserSignUp" \/ (page = "CourseDetail" /\ rev = "jsx"))
        /\ revision = rev
        /\ user = u
        /\ isInitialized = TRUE
        /\ cookies = IF u = Null THEN << >>
                     ELSE storeUserInCookies(<< >>, u, u.credentials, "ok", "ok")
        /\ restore = RestoreIdle("done")
        /\ windowHref = "/"
        /\ loads = 0
        /\ written = Null
        /\ location = Location(PagePath(page), "", NullString)
        /\ requested = NullString
        /\ shown = Null
        /\ last = [op |-> "mount", page |-> page]
        /\ IF page \in {"CourseDetail", "CourseUpdate"}
           THEN IF u = Null
                THEN /\ form = PageKept(PageMounted(page), <<"TypeError">>, NullString)
                     /\ inFlight = << >>
                ELSE /\ form = PageMounted(page)
                     /\ inFlight = <<[kind |-> "fetchCourse", user |-> u]>>
           ELSE /\ form = PageMounted(page)
                /\ inFlight = << >>

\* the reply to the request of fetchCourse arrives
FetchCourseSettle ==
    /\ inFlight # << >>
    /\ inFlight[1].kind = "fetchCourse"
    /\ \E response \in CourseResponses :
         \E p \in {IF form.page = "CourseDetail"
                    THEN CourseDetailFetchCourse(response, inFlight[1].user, form)
                    ELSE CourseUpdateFetchCourse(response, inFlight[1].user, form)} :
             /\ form' = p
             /\ location' = Navigated(p, location)
             /\ last' = [op |-> "fetchCourse", page |-> form.page,
                          response |-> response, user |-> inFlight[1].user]
    /\ inFlight' = << >>
    /\ UNCHANGED <<user, isInitialized, cookies, restore, windowHref, loads,
                   written, revision, requested, shown>>

\* the submit flag of the form: `submitting` in CourseUpdate, `loading` elsewhere
Submitting(p) == IF p.page = "CourseUpdate" THEN p.submitting ELSE p.loading

\* the form is on the screen with its submit button enabled
FormShown(p) ==
    /\ p.navigated = NullString
    /\ ~Submitting(p)
    /\ \/ p.page \in {"CourseCreate", "UserSignUp"}
       \/ p.page = "CourseUpdate" /\ ~p.loading /\ p.course # Null

\* the form is submitted: handleSubmit up to the await of fetch
PageSubmitCall ==
    /\ inFlight = << >>
    /\ FormShown(form)
    /\ \E emailAddress \in {<<97>>, <<960>>}, password \in Passwords :
         inFlight' = <<[kind |-> "submit", emailAddress |-> emailAddress,
                        password |-> password]>>
    /\ form' = IF form.page = "CourseUpdate"
                THEN [form EXCEPT !.submitting = TRUE, !.errors = << >>]
                ELSE [form EXCEPT !.loading = TRUE, !.errors = << >>]
    /\ last' = [op |-> "submitStart", page |-> form.page]
    /\ UNCHANGED <<user, isInitialized, cookies, restore, windowHref, loads,
                   written, location, revision, requested, shown>>

\* the reply to the request of handleSubmit arrives; UserSignUp goes on to
\* actions.signIn, which may return at once
PageSubmitSettle ==
    /\ inFlight # << >>
    /\ inFlight[1].kind = "submit"
    /\ \E response \in FormResponses :
         IF form.page = "UserSignUp"
         THEN \E h \in {IF revision = "jsx" THEN UserSignUpHandleSubmitJsx(response, form)
                         ELSE UserSignUpHandleSubmit(response, form)} :
              \E r \in {signInUserStart(inFlight[1].emailAddress, inFlight[1].password)} :
              \E p \in {IF ~h.calls THEN h.page
                         ELSE IF r.settled = "pending" THEN form
                         ELSE IF revision = "jsx"
                              THEN UserSignUpAfterSignInJsx(r.result, form)
                              ELSE UserSignUpAfterSignIn(r.result, form)} :
                  /\ form' = p
                  /\ location' = Navigated(p, location)
                  /\ inFlight' = IF h.calls /\ r.settled = "pending"
                                  THEN <<[kind |-> "signIn", credentials |-> r.fetch,
                                          emailAddress |-> inFlight[1].emailAddress,
                                          password |-> inFlight[1].password]>>
                                  ELSE << >>
                  /\ last' = [op |-> "submit", page |-> form.page,
                               response |-> response, calls |-> h.calls,
                               signedIn |-> h.calls /\ r.settled # "pending",
                               result |-> IF h.calls /\ r.settled # "pending"
                                          THEN r.result ELSE Null,
                               credentials |-> NullString, session |-> user]
         ELSE \E p \in {CASE form.page = "CourseUpdate" ->
                                  CourseUpdateHandleSubmit(response, form)
                           [] form.page = "CourseCreate" /\ revision = "jsx" ->
                                  CourseCreateHandleSubmitJsx(response, form)
                           [] OTHER -> CourseCreateHandleSubmit(response, form)} :
                  /\ form' = p
                  /\ location' = Navigated(p, location)
                  /\ inFlight' = << >>
                  /\ last' = [op |-> "submit", page |-> form.page,
                               response |-> response, calls |-> FALSE,
                               signedIn |-> FALSE, result |-> Null,
                               credentials |-> NullString, session |-> user]
    /\ UNCHANGED <<user, isInitialized, cookies, restore, windowHref, loads,
                   written, revision, requested, shown>>

\* the reply to the sign-in request of UserSignUp arrives: the rest of signInUser,
\* then the rest of handleSubmit
SignUpSignInSettle ==
    /\ inFlight # << >>
    /\ inFlight[1].kind = "signIn"
    /\ \E response \in SignUpSignInResponses :
         \E r \in {signInUserResume(response, inFlight[1].credentials, user, cookies,
                                    windowHref, "ok", "ok")} :
         \E p \in {IF revision = "jsx" THEN UserSignUpAfterSignInJsx(r.result, form)
                    ELSE UserSignUpAfterSignIn(r.result, form)} :
             /\ user' = r.user
             /\ cookies' = r.cookies
             /\ windowHref' = r.windowHref
             /\ form' = p
             /\ location' = Navigated(p, location)
             /\ last' = [op |-> "signUpSignIn", page |-> form.page,
                          response |-> response, calls |-> TRUE, signedIn |-> TRUE,
                          result |-> r.result,
                          credentials |-> inFlight[1].credentials,
                          session |-> user]
    /\ inFlight' = << >>
    /\ UNCHANGED <<isInitialized, restore, loads, written, revision, requested, shown>>

PagesNext ==
    \/ FetchCourseSettle
    \/ PageSubmitCall
    \/ PageSubmitSettle
    \/ SignUpSignInSettle

PagesSpec == PagesInit /\ [][PagesNext]_vars

----------------------------------------------------------------------------
(* The two credential encoders applied to the same string.  The session    *)
(* container is at rest; `last` holds the string, then the two results.    *)

MaxStr == 4

\* ":", "a", "p", the largest code unit btoa accepts, and one it does not accept
CodeUnits == {58, 97, 112, 255, 960}

RECURSIVE Strings(_)
Strings(n) ==
    IF n = 0 THEN { << >> }
    ELSE Strings(n - 1)
         \cup { Append(s, u) : s \in {t \in Strings(n - 1) : Len(t) = n - 1},
                                u \in CodeUnits }

EncoderInit ==
    /\ user = Null
    /\ isInitialized = FALSE
    /\ cookies = << >>
    /\ restore = RestoreIdle("start")
    /\ inFlight = << >>
    /\ windowHref = "/"
    /\ loads = 0
    /\ written = Null
    /\ location = Location("/signin", "", NullString)
    /\ revision = "parts"
    /\ form = FormMounted
    /\ requested = NullString
    /\ shown = Null
    /\ \E str \in Strings(MaxStr) : last = [op |-> "input", str |-> str]

\* both encoders are applied to the string
Encode ==
    /\ last.op = "input"
    /\ last' = [op |-> "encode", str |-> last.str,
                output |-> encodeBase64HandRolled(last.str),
                thrown |-> BtoaThrows(last.str),
                platform |-> IF BtoaThrows(last.str) THEN NullString
                             ELSE encodeBase64(last.str)]
    /\ UNCHANGED <<user, isInitialized, cookies, restore, inFlight, windowHref, loads>>
    /\ UNCHANGED ui

EncoderNext == Encode

EncoderSpec == EncoderInit /\ [][EncoderNext]_vars

----------------------------------------------------------------------------
(* Steps of the restore effect, told from the state before and after *)

ProfileKeys == {"id", "emailAddress", "firstName", "lastName"}

BothCookies(c) == USER_COOKIE_KEY \in DOMAIN c /\ USER_STATE_COOKIE_KEY \in DOMAIN c

\* the restore effect read the cookie store and sent its request
RestoreSent == restore.pc = "start" /\ restore'.pc = "fetching"

\* the restore effect received a 2xx response
RestoreAccepted ==
    /\ restore.pc = "fetching" /\ restore'.pc = "done"
    /\ last'.op = "restore"
    /\ last'.response.type = "response"
    /\ ResponseOk(last'.response)

\* the restore effect received a non-2xx response, or its request failed
RestoreRejected ==
    /\ restore.pc = "fetching" /\ restore'.pc = "done"
    /\ last'.op = "restore"
    /\ \/ last'.response.type = "error"
       \/ last'.response.type = "response" /\ ~ResponseOk(last'.response)

----------------------------------------------------------------------------
(* Claims about restore() *)

\* C1: restore() always finishes by setting initialized = true, whichever path it
\* takes (no request made, 2xx, non-2xx, request failed); and since the effect runs
\* and its request settles, every page load eventually reaches initialized = true.
C1_RestoreInitializes ==
    /\ [](restore.pc = "done" => isInitialized)
    /\ (~isInitialized) ~> isInitialized

\* restore() ended through the failure of its request, and initialized is true
C1_Witness ==
    /\ last.op = "restore"
    /\ last.response = NetworkError
    /\ restore.pc = "done"
    /\ isInitialized

\* C2: restore() sends its request only with both cookies present, carrying the
\* credentials cookie; when the backend answers 2xx it sets a non-empty session whose
\* credentials are those stored credentials, leaves the cookie store as it is, and
\* ends with initialized = true.
C2_RestoreAccepted ==
    [][ /\ RestoreSent =>
              /\ BothCookies(cookies)
              /\ restore'.storedCredentials = cookies[USER_COOKIE_KEY]
        /\ RestoreAccepted =>
              /\ user' # Null
              /\ Get(user', "credentials") = restore.storedCredentials
              /\ cookies' = cookies
              /\ isInitialized'
      ]_vars

\* restore() was answered 2xx: signed in with the stored credentials, cookies in place
C2_Witness ==
    /\ last.op = "restore"
    /\ last.response.type = "response"
    /\ last.response.status = 200
    /\ user # Null
    /\ BothCookies(cookies)
    /\ Get(user, "credentials") = cookies[USER_COOKIE_KEY]
    /\ isInitialized

\* the e-mail address of a profile the backend returns, under either of its names
ResponseEmail(o) ==
    IF "emailAddress" \in DOMAIN o THEN o["emailAddress"] ELSE Get(o, "email")

\* C3 as stated: on a 2xx response carrying a profile, the session restore() sets is
\* that returned profile (id, emailAddress, firstName, lastName) with the stored
\* credentials.
C3_SessionFromResponse ==
    [][ ( /\ RestoreAccepted
          /\ JSONparsable(last'.response.body)
          /\ JSONparse(last'.response.body) # Null )
        => LET profile == JSONparse(last'.response.body)
           IN  /\ Get(user', "id") = Get(profile, "id")
               /\ Get(user', "emailAddress") = ResponseEmail(profile)
               /\ Get(user', "firstName") = Get(profile, "firstName")
               /\ Get(user', "lastName") = Get(profile, "lastName")
               /\ Get(user', "credentials") = restore.storedCredentials
      ]_vars

\* C3 as amended: on a 2xx response, the session restore() sets is the profile parsed
\* from the profile cookie when restore() started, with the stored credentials; the
\* response body has no part in it.
C3_SessionFromStoredProfile ==
    [][ /\ RestoreSent =>
              /\ JSONparsable(cookies[USER_STATE_COOKIE_KEY])
              /\ restore'.storedUserState = JSONparse(cookies[USER_STATE_COOKIE_KEY])
              /\ restore'.storedCredentials = cookies[USER_COOKIE_KEY]
        /\ RestoreAccepted =>
              /\ \A k \in ProfileKeys :
                    Get(user', k) = Get(restore.storedUserState, k)
              /\ Get(user', "credentials") = restore.storedCredentials
      ]_vars

\* restore() was answered 2xx with another profile than the stored one, and the
\* session holds the stored one
C3_Witness ==
    /\ last.op = "restore"
    /\ last.response = Response(200, ProfileBody2)
    /\ user # Null
    /\ Get(user, "id") = "1"
    /\ Get(user, "firstName") = "A"

\* C4: when restore() sent its request (both cookies present) and the backend answers
\* with a non-2xx status, or the request fails, restore() leaves the session as it
\* was (empty, unless a signIn filled it meanwhile: restore() itself sets none),
\* removes both cookies, and ends with initialized = true.
C4_RestoreRejected ==
    [][ RestoreRejected =>
              /\ user' = user
              /\ DOMAIN cookies' = {}
              /\ isInitialized'
      ]_vars

\* restore() was answered 401: session empty, no cookie left, initialized
C4_Witness ==
    /\ last.op = "restore"
    /\ last.response.type = "response"
    /\ last.response.status = 401
    /\ user = Null
    /\ cookies = << >>
    /\ isInitialized

----------------------------------------------------------------------------
(* Claims about signIn() and signOut() *)

\* a signInUser call returned in the last step, answered by the backend
SignInAnswered == last.op = "signIn" /\ last.response.type = "response"

\* the credentials a signInUser call can send
EncodedCredentials ==
    { encodeBase64(BasicAuthString(e, p)) :
        e \in {x \in EmailAddresses : ~BtoaThrows(x)}, p \in Passwords }

\* C5: signIn answered 2xx with a profile returns {success: true}, sets the session
\* to the profile's id, firstName and lastName with the encoded credentials of the
\* call, and writes the credentials cookie and the profile cookie.
C5_SignInAccepted ==
    ( /\ SignInAnswered
      /\ ResponseOk(last.response)
      /\ ~JsonThrows(last.response.body) )
    => LET profile == JSONparse(last.response.body)
       IN  /\ last.settled = "fulfilled"
           /\ last.result = [success |-> TRUE]
           /\ last.credentials \in EncodedCredentials
           /\ user # Null
           /\ Get(user, "id") = Get(profile, "id")
           /\ Get(user, "firstName") = Get(profile, "firstName")
           /\ Get(user, "lastName") = Get(profile, "lastName")
           /\ Get(user, "credentials") = last.credentials
           /\ BothCookies(cookies)
           /\ cookies[USER_COOKIE_KEY] = last.credentials
           /\ JSONparsable(cookies[USER_STATE_COOKIE_KEY])
           /\ LET stored == JSONparse(cookies[USER_STATE_COOKIE_KEY])
              IN  /\ stored # Null
                  /\ Get(stored, "id") = Get(profile, "id")
                  /\ Get(stored, "firstName") = Get(profile, "firstName")
                  /\ Get(stored, "lastName") = Get(profile, "lastName")

\* signIn("a", "p") was answered 200 with the profile of user 1: signed in as user 1,
\* both cookies written
C5_Witness ==
    /\ SignInAnswered
    /\ last.response = Response(200, ProfileBody1)
    /\ last.result = [success |-> TRUE]
    /\ user # Null
    /\ Get(user, "id") = "1"
    /\ Get(user, "credentials") = encodeBase64(BasicAuthString(<<97>>, <<112>>))
    /\ BothCookies(cookies)

\* C6: signIn answered 403 sets window.location.href to /forbidden, and answered 500
\* to /error; either way it returns a result with success = false and response.json()
\* is not called.
C6_SignInRedirects ==
    /\ (SignInAnswered /\ last.response.status = 403) =>
           /\ windowHref = "/forbidden"
           /\ last.settled = "fulfilled"
           /\ Get(last.result, "success") = FALSE
           /\ ~last.jsonCalled
    /\ (SignInAnswered /\ last.response.status = 500) =>
           /\ windowHref = "/error"
           /\ last.settled = "fulfilled"
           /\ Get(last.result, "success") = FALSE
           /\ ~last.jsonCalled

\* signIn was answered 403 with a body that is not JSON: redirected, failure returned
C6_Witness ==
    /\ SignInAnswered
    /\ last.response = Response(403, NotJson)
    /\ windowHref = "/forbidden"
    /\ last.result = [success |-> FALSE, message |-> "Access forbidden"]

\* a non-2xx answer other than 403 and 500
SignInRefusedOther ==
    /\ SignInAnswered
    /\ ~ResponseOk(last.response)
    /\ last.response.status \notin {403, 500}

\* the message the body of the answer carries, if it carries a non-empty one
ServerMessage(body) ==
    IF JsonThrows(body) THEN Undefined ELSE Get(JSONparse(body), "message")

\* C7 as stated: signIn answered with a non-2xx status other than 403 and 500 returns
\* {success: false, message}, message being the message of the body when the body
\* carries a non-empty one, and the default otherwise.
C7_MessageOrDefault ==
    SignInRefusedOther =>
        last.result =
            [success |-> FALSE,
             message |-> IF Truthy(ServerMessage(last.response.body))
                         THEN ServerMessage(last.response.body)
                         ELSE DefaultMessage]

\* C7 as amended: the same, when the body of the answer parses as a JSON object; when
\* it does not (it is not JSON, or it is null) the result is the network-error failure.
C7_MessageOrDefaultOfJsonBody ==
    SignInRefusedOther =>
        /\ last.settled = "fulfilled"
        /\ last.result =
             IF JsonThrows(last.response.body) THEN NetworkErrorResult
             ELSE [success |-> FALSE,
                   message |-> IF Truthy(ServerMessage(last.response.body))
                               THEN ServerMessage(last.response.body)
                               ELSE DefaultMessage]

\* signIn was answered 401 with a message, and returned it
C7_Witness ==
    /\ SignInAnswered
    /\ last.response = Response(401, MessageBody)
    /\ last.result = [success |-> FALSE, message |-> "Access Denied"]

\* the cases in which the try block of signInUser is left by an exception
SignInException ==
    \/ last.response.type = "none"
    \/ last.response.type = "error"
    \/ /\ last.response.type = "response"
       /\ last.response.status \notin {403, 500}
       /\ JsonThrows(last.response.body)

\* C8: signIn never throws or rejects: every call resolves to a result object with a
\* boolean success, and a network failure, a body that cannot be parsed or a failure
\* of the encoder yields the network-error failure result.
C8_SignInNeverThrows ==
    last.op = "signIn" =>
        /\ last.settled = "fulfilled"
        /\ Get(last.result, "success") \in BOOLEAN
        /\ SignInException => last.result = NetworkErrorResult

\* signIn was called with an e-mail address btoa cannot encode, and returned the
\* network-error failure
C8_Witness ==
    /\ last.op = "signIn"
    /\ last.response = NoResponse
    /\ last.settled = "fulfilled"
    /\ last.result = NetworkErrorResult

\* C9: signOut() leaves an empty session and an empty cookie store, whatever the state
\* before it (signed in, signed out, restoring), and sends no request: no signIn call
\* is added and the restore effect is where it was.
C9_SignOutClears ==
    [][ last'.op = "signOut" =>
              /\ user' = Null
              /\ DOMAIN cookies' = {}
              /\ inFlight' = inFlight
              /\ restore' = restore
      ]_vars

\* signOut() ran while restore() was awaiting its answer: session and cookies empty
C9_Witness ==
    /\ last.op = "signOut"
    /\ restore.pc = "fetching"
    /\ user = Null
    /\ cookies = << >>

\* the two cookies are both present or both absent
CookiesPaired(c) == (USER_COOKIE_KEY \in DOMAIN c) <=> (USER_STATE_COOKIE_KEY \in DOMAIN c)

\* C10: the credentials cookie and the profile cookie are written together and
\* cleared together: no step takes a cookie store holding both or neither to one
\* holding only one of them, also when a write or a removal fails.
C10_CookiesPaired ==
    [][ CookiesPaired(cookies) => CookiesPaired(cookies') ]_vars

----------------------------------------------------------------------------
(* Claims about overlapping operations *)

\* the operations that write the session and are awaiting their fetch
WritersInFlight == Len(inFlight) + (IF restore.pc = "fetching" THEN 1 ELSE 0)

\* C11: at any time at most one session-writing operation, the startup restore or
\* a signIn, is in flight.
C11_OneWriterInFlight == WritersInFlight <= 1

----------------------------------------------------------------------------
(* Claims about the restore effect over page loads *)

\* C18: restore() starts only from a fresh mount, once per page load; it asks the
\* backend only when both cookies are present (and the profile cookie parses), and
\* ends at once otherwise; after signOut followed by a page load it makes no
\* request and leaves the user signed out, initialized, with an empty cookie store.
C18_RestoreOncePerStart ==
    [][ /\ last'.op = "restoreStart" =>
              /\ restore.pc = "start" /\ restore'.pc # "start"
              /\ last'.fetch # NullString =>
                     /\ BothCookies(cookies)
                     /\ JSONparsable(cookies[USER_STATE_COOKIE_KEY])
                     /\ restore'.pc = "fetching"
              /\ last'.fetch = NullString => restore'.pc = "done" /\ isInitialized'
              /\ last'.after = "signOut" =>
                     /\ last'.fetch = NullString
                     /\ user' = Null
                     /\ isInitialized'
                     /\ cookies' = << >>
        /\ (restore.pc # "start" /\ restore'.pc = "start") => last'.op = "load"
      ]_vars

\* signOut, a page load, and the restore effect of that load: no request was made
C18_Witness ==
    /\ last.op = "restoreStart"
    /\ last.after = "signOut"
    /\ last.fetch = NullString
    /\ loads = 1
    /\ user = Null
    /\ isInitialized
    /\ cookies = << >>

----------------------------------------------------------------------------
(* Claims about the route guard, the sign-in form and the pages *)

\* the redirects of the last step, in their order
Redirects == IF "redirects" \in DOMAIN last THEN last.redirects ELSE << >>

\* what the routes show in the current state
Screen == Routes(revision, user, isInitialized, location)

\* C12: while isInitialized is false the route guard shows the waiting placeholder
\* at a guarded location, neither the protected page nor a redirect: no redirect
\* of the guard happens before initialization.
C12_GuardWaits ==
    /\ (~isInitialized /\ Guarded(revision, location)) => Screen.type = "Loading"
    /\ \A i \in 1..Len(Redirects) :
          Redirects[i].by = "PrivateRoute" => Redirects[i].initialized

\* C13: once initialized, a guarded location shows its page exactly when the
\* session is non-empty; the guard redirects only an empty session, to /signin,
\* carrying pathname + search of the attempted location as state.from.
C13_GuardDecides ==
    /\ (isInitialized /\ Guarded(revision, location)) =>
          (Screen.type \in {"Courses", "CourseCreate"} <=> user # Null)
    /\ \A i \in 1..Len(Redirects) :
          (Redirects[i].by = "PrivateRoute" /\ Redirects[i].initialized) =>
              /\ ~Redirects[i].signedIn
              /\ Redirects[i].to = "/signin"
              /\ Redirects[i].state =
                     Redirects[i].at.pathname \o Redirects[i].at.search

\* C14: a successful sign-in navigates to the path the route guard turned the user
\* away from, and to "/" when no path was preserved; a failed sign-in navigates
\* nowhere and the form shows the message of the failure.
C14_SignInReturns ==
    last.op = "signIn" =>
        IF last.result = [success |-> TRUE]
        THEN /\ last.requested # NullString => last.navigated = last.requested
             /\ ~Truthy(last.from) => last.navigated = "/"
        ELSE /\ last.navigated = NullString
             /\ Redirects = << >>
             /\ windowHref = last.href
             /\ last.mounted => form.errors = <<Get(last.result, "message")>>

----------------------------------------------------------------------------
(* Claims about what is stored and sent *)

\* a cookie that a step wrote or replaced
Written(key) ==
    /\ key \in DOMAIN cookies'
    /\ key \notin DOMAIN cookies \/ cookies'[key] # cookies[key]

\* C15: whatever a step writes to the cookie store, the profile cookie is a JSON
\* object with no member besides id, emailAddress, firstName and lastName, and the
\* credentials cookie is the encoded Basic-Auth string of the session.
C15_NoPasswordInCookies ==
    [][ /\ Written(USER_STATE_COOKIE_KEY) =>
              /\ JSONparsable(cookies'[USER_STATE_COOKIE_KEY])
              /\ JSONparse(cookies'[USER_STATE_COOKIE_KEY]) # Null
              /\ DOMAIN JSONparse(cookies'[USER_STATE_COOKIE_KEY]) \subseteq ProfileKeys
        /\ Written(USER_COOKIE_KEY) =>
              /\ cookies'[USER_COOKIE_KEY] \in EncodedCredentials
              /\ cookies'[USER_COOKIE_KEY] = Get(user', "credentials")
      ]_vars

\* signIn("b", "p") replaced both cookies of user 1 by those of user 2
C15_Witness ==
    /\ SignInAnswered
    /\ last.response = Response(200, ProfileBody2)
    /\ BothCookies(cookies)
    /\ cookies[USER_COOKIE_KEY] = encodeBase64(BasicAuthString(<<98>>, <<112>>))
    /\ cookies[USER_STATE_COOKIE_KEY] = [json |-> << <<"id", "2">>, <<"firstName", "B">> >>]

\* base64 of RFC 4648: its test vectors, and the strings the sign-in form sends
Rfc4648 ==
    (<<102>> :> "Zg==") @@ (<<102, 111>> :> "Zm8=") @@ (<<102, 111, 111>> :> "Zm9v")
    @@ (<<102, 111, 111, 98>> :> "Zm9vYg==")
    @@ (<<102, 111, 111, 98, 97>> :> "Zm9vYmE=")
    @@ (<<102, 111, 111, 98, 97, 114>> :> "Zm9vYmFy")
    @@ (<<97, 58, 112>> :> "YTpw") @@ (<<98, 99, 58, 112>> :> "YmM6cA==")

\* C16: signIn(email, password) sends GET /api/users with the header Authorization:
\* "Basic " and the standard base64 of email ":" password; the credentials it keeps
\* for the call, and on success in the session and in the cookie, are that string.
C16_BasicAuthRequest ==
    /\ \A str \in DOMAIN Rfc4648 : ~BtoaThrows(str) /\ encodeBase64(str) = Rfc4648[str]
    /\ last.op = "signInStart" =>
          LET str == BasicAuthString(last.emailAddress, last.password)
          IN  /\ str \in DOMAIN Rfc4648
              /\ last.request = [method |-> "GET", url |-> "/api/users",
                                 headers |-> [Authorization |-> "Basic " \o Rfc4648[str]]]
              /\ inFlight[Len(inFlight)].credentials = Rfc4648[str]
    /\ (last.op = "signIn" /\ last.result = [success |-> TRUE]) =>
          LET str == BasicAuthString(last.emailAddress, last.password)
          IN  /\ str \in DOMAIN Rfc4648
              /\ last.credentials = Rfc4648[str]
              /\ Get(user, "credentials") = Rfc4648[str]
              /\ BothCookies(cookies)
              /\ cookies[USER_COOKIE_KEY] = Rfc4648[str]

\* signIn("bc", "p") succeeded: the padded string is in the session and the cookie
C16_Witness ==
    /\ last.op = "signIn"
    /\ last.result = [success |-> TRUE]
    /\ last.emailAddress = <<98, 99>>
    /\ Get(user, "credentials") = "YmM6cA=="
    /\ cookies[USER_COOKIE_KEY] = "YmM6cA=="

\* C17: when a page is loaded after a successful signIn, on the cookies that signIn
\* wrote, and the backend accepts the request of restore(), the session is the one
\* signIn produced: same id, emailAddress, firstName, lastName and credentials.
C17_RefreshKeepsSession ==
    ( /\ last.op = "restore"
      /\ last.response.type = "response"
      /\ ResponseOk(last.response)
      /\ written # Null
      /\ written.loads < loads )
    => /\ user # Null
       /\ \A k \in ProfileKeys \cup {"credentials"} :
             Get(user, k) = Get(written.user, k)

\* signed in as the user whose profile has no email and no lastName, the page
\* loaded again, restore() accepted: signed in with the same fields
C17_Witness ==
    /\ last.op = "restore"
    /\ last.response.type = "response"
    /\ ResponseOk(last.response)
    /\ written # Null
    /\ written.loads < loads
    /\ user # Null
    /\ Get(user, "id") = "2"
    /\ Get(written.user, "lastName") = Undefined
    /\ Get(user, "lastName") = Undefined

----------------------------------------------------------------------------
(* Claims about the pages shown *)

\* C19: while isInitialized is false the Header shows a loading state, neither the
\* signed-in nor the signed-out navigation.
C19_HeaderWaits == ~isInitialized => Header(user) = "loading"

\* C20: a user with an empty session who goes to "/", by a link or by loading the
\* page there, is shown the course list and is not redirected.
C20_CatalogPublic ==
    ( /\ \/ last.op = "link" /\ last.to = "/"
         \/ last.op = "load" /\ last.url.pathname = "/"
      /\ user = Null )
    => /\ location.pathname = "/"
       /\ Screen.type = "Courses"
       /\ Redirects = << >>

----------------------------------------------------------------------------
(* Claims about sign-in attempts that overlap or fail *)

\* C24: while a signIn call of the sign-in form is in flight the form shown has its
\* submit button disabled (loading is true), so that no second call can be started
\* before the first has resolved.
C24_OneSubmissionInFlight ==
    (Screen.type = "UserSignIn" /\ inFlight # << >>) => form.loading

CookiesHold(c, u) ==
    /\ BothCookies(c)
    /\ c[USER_COOKIE_KEY] = Get(u, "credentials")
    /\ JSONparsable(c[USER_STATE_COOKIE_KEY])
    /\ JSONparse(c[USER_STATE_COOKIE_KEY]) # Null
    /\ \A k \in ProfileKeys : Get(JSONparse(c[USER_STATE_COOKIE_KEY]), k) = Get(u, k)

\* C26: whenever no restore and no signIn is in flight, a non-empty session is the
\* one the two cookies hold.
C26_SessionMatchesCookies ==
    (WritersInFlight = 0 /\ user # Null) => CookiesHold(cookies, user)

\* C27: when a signIn succeeded while the restore request of the same page load was
\* in flight, the session after the reply to restore() is the one signIn established.
C27_SignInSurvivesRestore ==
    (last.op = "restore" /\ written # Null /\ written.loads = loads)
        => user = written.user

\* C28: the reply to a signIn or a restore that arrives right after signOut() ran
\* leaves the session and the cookie store empty.
C28_SignOutIsFinal ==
    [][ (last.op = "signOut" /\ last'.op \in {"signIn", "restore"}) =>
            /\ user' = Null
            /\ cookies' = << >>
      ]_vars

----------------------------------------------------------------------------
(* Claims about orphan cookies *)

\* one of the two cookies is missing, or the profile cookie does not parse
Orphaned(c) ==
    \/ (USER_COOKIE_KEY \in DOMAIN c) # (USER_STATE_COOKIE_KEY \in DOMAIN c)
    \/ USER_STATE_COOKIE_KEY \in DOMAIN c /\ ~JSONparsable(c[USER_STATE_COOKIE_KEY])

----------------------------------------------------------------------------
(* Claims about the hand-written encoder *)

\* C23: the hand-written encoder gives 4 * ceil(n / 3) characters, none of them
\* "="; on a string whose length is a multiple of 3 it gives what the platform
\* encoder gives; on any other string it differs from the platform encoder, and
\* ends in "A" (six zero bits) where base64 has padding.
C23_HandRolledEncoder ==
    last.op = "encode" =>
        LET n == Len(last.str)
            out == last.output
        IN  /\ Len(out) = 4 * ((n + 2) \div 3)
            /\ \A i \in 1..Len(out) : out[i] # "="
            /\ n % 3 = 0 => ~last.thrown /\ Join(out) = last.platform
            /\ n % 3 # 0 => Join(out) # last.platform
            /\ n % 3 = 1 => out[Len(out) - 1] = "A" /\ out[Len(out)] = "A"
            /\ n % 3 = 2 => out[Len(out)] = "A"

----------------------------------------------------------------------------
(* Claims about the course pages and the forms *)

\* C21: CourseDetail offers Update Course and Delete Course only when the id of
\* the session user equals the userId of the course it fetched; CourseUpdate,
\* when the course it fetched has another userId than the session user's id,
\* navigates to /forbidden and leaves its form unpopulated.
C21_OwnerOnly ==
    /\ (form.page = "CourseDetail" /\ CourseDetailControls(user, form) # {}) =>
          /\ user # Null
          /\ last.op = "fetchCourse"
          /\ last.response.type = "response"
          /\ ResponseOk(last.response)
          /\ form.course = last.response.body.course
          /\ Get(user, "id") = form.course.userId
    /\ ( /\ last.op = "fetchCourse"
         /\ last.page = "CourseUpdate"
         /\ last.response.type = "response"
         /\ ResponseOk(last.response)
         /\ ~BodyThrows(last.response.body)
         /\ ~CourseMissing(last.response.body)
         /\ last.response.body.course.userId # Get(user, "id") )
       => /\ form.navigated = "/forbidden"
          /\ location.pathname = "/forbidden"
          /\ form.formData = EmptyFormData

\* user 1 opened the update form of a course of user 2
C21_Witness ==
    /\ last.op = "fetchCourse"
    /\ last.page = "CourseUpdate"
    /\ last.response = Response(200, [course |-> Course("2")])
    /\ Get(user, "id") = "1"
    /\ location.pathname = "/forbidden"
    /\ form.formData = EmptyFormData

\* where a form goes after a reply with a 2xx status
Onward(page) == IF page = "CourseUpdate" THEN "/courses/:id" ELSE "/"

\* the message a form shows when the backend sent no errors list
FormDefault(page) ==
    CASE page = "CourseCreate" -> "Failed to create course. Please try again."
      [] page = "CourseUpdate" -> "Failed to update course. Please try again."
      [] page = "UserSignUp" -> "Failed to create user. Please try again."

\* C22: after the reply to a form submission: a 2xx status navigates onward (the
\* sign-up form goes on to sign in), 403 navigates to /forbidden, 500 to /error,
\* another status shows the errors list of the body, or the form's default
\* message when the body has none; a failed request shows the form's message.
\* No request is repeated, and the submit flag is false again.
C22_OutcomesClassified ==
    /\ last.op = "submit" =>
           IF last.response.type = "error"
           THEN form.errors = <<FormDefault(last.page)>> /\ form.navigated = NullString
           ELSE IF ResponseOk(last.response)
           THEN IF last.page = "UserSignUp" THEN last.calls
                ELSE form.navigated = Onward(last.page)
           ELSE IF last.response.status = 403 THEN form.navigated = "/forbidden"
           ELSE IF last.response.status = 500 THEN form.navigated = "/error"
           ELSE /\ form.navigated = NullString
                /\ form.errors =
                       IF /\ ~BodyThrows(last.response.body)
                          /\ last.response.body # Null
                          /\ "errors" \in DOMAIN last.response.body
                       THEN last.response.body.errors
                       ELSE <<FormDefault(last.page)>>
    /\ (last.op = "submit" /\ ~(last.calls /\ ~last.signedIn)) \/ last.op = "signUpSignIn"
          => inFlight = << >> /\ ~Submitting(form)

\* the sign-in of a sign-up has returned
SignUpSignedIn == last.op = "signUpSignIn" \/ (last.op = "submit" /\ last.signedIn)

\* C30: after a sign-up that the backend accepted, signIn is called with the
\* address and the password submitted; when it returns success the form navigates
\* to "/", and when it does not the form navigates nowhere, shows that the user
\* was created but sign-in failed, and a session that was empty is still empty.
C30_SignUpThenSignIn ==
    /\ (inFlight # << >> /\ inFlight[1].kind = "signIn") =>
          inFlight[1].credentials =
              encodeBase64(BasicAuthString(inFlight[1].emailAddress,
                                           inFlight[1].password))
    /\ SignUpSignedIn =>
          IF last.result = [success |-> TRUE]
          THEN form.navigated = "/" /\ location.pathname = "/"
          ELSE /\ form.navigated = NullString
               /\ location.pathname = "/signup"
               /\ windowHref = "/"
               /\ form.errors = <<"User created successfully, but sign in failed: "
                                     \o last.result.message>>
               /\ last.session = Null => user = Null

====
